---- MODULE Spec2Model ----
(***************************************************************************)
(* Model of NetworkBuilder (src/services/networkBuilder.ts): the adjacency *)
(* index built by the constructor, searchNodes, filterByAttributes,        *)
(* expandFromSeeds, selectTopNodesByDegree and buildNetwork.               *)
(*                                                                         *)
(* Conventions.  A JavaScript string is a sequence of one-character        *)
(* strings.  An optional field is a sequence of length 0 (undefined) or 1  *)
(* (the value).  A Set<string> whose iteration order the code never        *)
(* observes is a set; arrays and Maps whose order is observed are          *)
(* sequences.  A returned node is a reference to a record of allNodes and  *)
(* is modelled by the id of that record.  After a buildNetwork call        *)
(* output holds the values of the call's local variables at its return.    *)
(***************************************************************************)
EXTENDS Integers, Sequences, FiniteSets, TLC

VARIABLES allNodes, allLinks, adjacencyMap, constructed, last, input, output

vars == <<allNodes, allLinks, adjacencyMap, constructed, last, input, output>>

(***************************************************************************)
(* Bounds of the model.                                                    *)
(***************************************************************************)
MaxNodes == 3
MaxLinks == 2
MaxDepth == 2

(***************************************************************************)
(* Generic helpers on sequences.                                           *)
(***************************************************************************)
Range(s) == {s[i] : i \in 1..Len(s)}

Min2(a, b) == IF a < b THEN a ELSE b

\* Array.prototype.slice(0, n) for n >= 0 and for negative n (n counts from the end)
Slice0(s, n) ==
  LET stop == IF n < 0 THEN (IF Len(s) + n < 0 THEN 0 ELSE Len(s) + n) ELSE Min2(n, Len(s))
  IN SubSeq(s, 1, stop)

\* all sequences over S of length at most n
SeqsUpTo(S, n) == UNION {[1..k -> S] : k \in 0..n}

(***************************************************************************)
(* Strings.                                                                *)
(***************************************************************************)
Some(v) == <<v>>
None == <<>>

\* String.prototype.toLowerCase on the model's alphabet
LowerChar(c) == CASE c = "A" -> "a" [] c = "B" -> "b" [] OTHER -> c
toLowerCase(s) == [i \in 1..Len(s) |-> LowerChar(s[i])]

\* String.prototype.trim
RECURSIVE TrimStart(_)
TrimStart(s) == IF s # <<>> /\ Head(s) = " " THEN TrimStart(Tail(s)) ELSE s
RECURSIVE TrimEnd(_)
TrimEnd(s) == IF s # <<>> /\ s[Len(s)] = " " THEN TrimEnd(SubSeq(s, 1, Len(s) - 1)) ELSE s
trim(s) == TrimEnd(TrimStart(s))

\* String.prototype.includes
includes(hay, needle) ==
  \E i \in 0..(Len(hay) - Len(needle)) : SubSeq(hay, i + 1, i + Len(needle)) = needle

\* parseInt(s): leading blanks skipped, then the longest run of decimal digits;
\* NaN (None) when there is no digit
DigitVal(c) == CASE c = "0" -> 0 [] c = "1" -> 1 [] c = "2" -> 2 [] OTHER -> -1
RECURSIVE ParseDigits(_, _, _)
ParseDigits(s, acc, seen) ==
  IF s # <<>> /\ DigitVal(Head(s)) >= 0
  THEN ParseDigits(Tail(s), 10 * acc + DigitVal(Head(s)), TRUE)
  ELSE IF seen THEN Some(acc) ELSE None
parseInt(s) == ParseDigits(TrimStart(s), 0, FALSE)

\* JavaScript truthiness of an optional string and of an optional number
TruthyStr(o) == o # None /\ o[1] # <<>>
TruthyNum(o) == o # None /\ o[1] # 0
\* a || b on optional strings
OrElse(a, b) == IF TruthyStr(a) THEN a ELSE b

(***************************************************************************)
(* The base graph: GraphNode and GraphLink records (src/types.ts).         *)
(***************************************************************************)
NodeTypes == {"section", "entity", "concept", "index"}
EdgeTypes == {"reference", "hierarchy"}

NoProps == [text |-> None, full_name |-> None, definition |-> None]

\* a GraphNode with every optional field undefined
BlankNode(id, type, name) ==
  [id |-> id, name |-> name, node_type |-> type,
   val |-> None, totalVal |-> None, color |-> None, baseColor |-> None,
   title |-> None, display_label |-> None, properties |-> None,
   full_name |-> None, text |-> None, section_num |-> None,
   section_heading |-> None, section_text |-> None, index_heading |-> None,
   title_num |-> None]

\* the node records graphs are drawn from, in base order
NodePool ==
  << [BlankNode("a", "section", <<"S">>) EXCEPT
        !.properties = Some([NoProps EXCEPT !.text = Some(<<"A", "b">>)]),
        !.title_num = Some(1), !.section_num = Some(<<"1", "A">>),
        !.display_label = Some(<<>>)],
     [BlankNode("b", "entity", <<"b">>) EXCEPT
        !.text = Some(<<"b">>), !.title_num = Some(1), !.title = Some(<<"1">>)],
     [BlankNode("c", "index", <<"I">>) EXCEPT
        !.properties = Some([NoProps EXCEPT !.text = Some(<<>>), !.full_name = Some(<<"a", " ", "b">>)]),
        !.index_heading = Some(<<"B", "a">>),
        !.title_num = Some(0), !.title = Some(<<" ", "2", "b">>),
        !.section_num = Some(<<"2", "b">>)],
     [BlankNode("d", "concept", <<"a">>) EXCEPT
        !.properties = Some([NoProps EXCEPT !.definition = Some(<<"a", "a">>)]),
        !.section_num = Some(<<>>), !.val = Some(7)],
     [BlankNode("e", "section", <<"e">>) EXCEPT
        !.section_text = Some(<<"a">>), !.title = Some(<<"b">>)],
     [BlankNode("f", "other", <<"f">>) EXCEPT
        !.text = Some(<<"a", "b">>), !.title = Some(<<"0">>)] >>

Link(s, t, e) == [source |-> s, target |-> t, edge_type |-> e]

\* the link records graphs are drawn from; an endpoint that is not in the
\* node list of the graph makes the link dangling
LinkPool ==
  << Link("a", "b", "reference"),
     Link("a", "c", "hierarchy"),
     Link("b", "c", "reference"),
     Link("c", "d", "hierarchy") >>

NodeLists == {SubSeq(NodePool, 1, k) : k \in 0..MaxNodes}
LinkLists == SeqsUpTo(Range(LinkPool), MaxLinks)

IdsOf(nodes) == {nodes[i].id : i \in 1..Len(nodes)}
NodeIds == IdsOf(allNodes)
\* this.allNodes.find(n => n.id === id)
NodeById(id) == allNodes[CHOOSE i \in 1..Len(allNodes) : allNodes[i].id = id]

(***************************************************************************)
(* constructor: the adjacency map.  A Map is a function whose domain is    *)
(* the set of keys that were set.                                          *)
(***************************************************************************)
Nbr(n, e) == [neighborId |-> n, edgeType |-> e]

\* adjacencyMap.get(k).push(v), after the has/set initialisation of k
Push(m, k, v) ==
  IF k \in DOMAIN m
  THEN [m EXCEPT ![k] = Append(@, v)]
  ELSE [x \in DOMAIN m \cup {k} |-> IF x = k THEN <<v>> ELSE m[x]]

RECURSIVE BuildAdjacency(_, _)
BuildAdjacency(links, m) ==
  IF links = <<>> THEN m
  ELSE LET l == Head(links)
           m1 == Push(m, l.source, Nbr(l.target, l.edge_type))
           m2 == Push(m1, l.target, Nbr(l.source, l.edge_type))
       IN BuildAdjacency(Tail(links), m2)

EmptyMap == [x \in {} |-> <<>>]

\* this.adjacencyMap.get(nodeId) || []
Neighbors(nodeId) == IF nodeId \in DOMAIN adjacencyMap THEN adjacencyMap[nodeId] ELSE <<>>

(***************************************************************************)
(* searchNodes                                                             *)
(***************************************************************************)
PropsOf(node, key) == IF node.properties = None THEN None ELSE node.properties[1][key]

\* value !== null && value !== undefined  =>  push(String(value).toLowerCase())
PushValue(v) == IF v = None THEN <<>> ELSE <<toLowerCase(v[1])>>

\* every string value of the properties bag, in key order
PropertyValues(node) ==
  IF node.properties = None THEN <<>>
  ELSE PushValue(node.properties[1].text) \o PushValue(node.properties[1].full_name)
       \o PushValue(node.properties[1].definition)

\* what one field of searchFields appends to searchableValues (the switch)
FieldValues(node, field) ==
  CASE field = "text" ->
         PushValue(OrElse(PropsOf(node, "text"),
                   OrElse(node.text, OrElse(node.section_text, node.index_heading))))
    [] field = "full_name" -> PushValue(OrElse(PropsOf(node, "full_name"), node.full_name))
    [] field = "display_label" -> PushValue(node.display_label)
    [] field = "definition" -> PushValue(PropsOf(node, "definition"))
    [] field = "entity" -> PushValue(IF node.node_type = "entity" THEN Some(node.name) ELSE None)
    [] field = "concept" -> PushValue(IF node.node_type = "concept" THEN Some(node.name) ELSE None)
    [] field = "properties" -> PropertyValues(node)
    [] field = "section_text" ->
         PushValue(OrElse(node.section_text, OrElse(PropsOf(node, "text"), node.text)))
    [] field = "section_heading" -> PushValue(node.section_heading)
    [] field = "section_num" -> PushValue(node.section_num)
    [] field = "tag" -> PushValue(IF node.node_type = "concept" THEN Some(node.name) ELSE None)
    [] field = "name" -> PushValue(Some(node.name))
    [] OTHER -> <<>>

RECURSIVE SearchableValues(_, _)
SearchableValues(node, fields) ==
  IF fields = <<>> THEN <<>>
  ELSE FieldValues(node, Head(fields)) \o SearchableValues(node, Tail(fields))

\* searchableValues.some(v => v.includes(term))
TermFound(values, term) == \E i \in 1..Len(values) : includes(values[i], term)

MatchesOR(values, terms) == \E j \in 1..Len(terms) : TermFound(values, terms[j])
MatchesAND(values, terms) == \A j \in 1..Len(terms) : TermFound(values, terms[j])

searchNodes(searchTerms, searchFields, logic) ==
  LET normalizedTerms == [j \in 1..Len(searchTerms) |-> trim(toLowerCase(searchTerms[j]))]
  IN {allNodes[i].id : i \in
        {k \in 1..Len(allNodes) :
           LET values == SearchableValues(allNodes[k], searchFields)
           IN IF logic = "OR" THEN MatchesOR(values, normalizedTerms)
                              ELSE MatchesAND(values, normalizedTerms)}}

(***************************************************************************)
(* filterByAttributes                                                      *)
(***************************************************************************)
InSeq(x, s) == \E i \in 1..Len(s) : s[i] = x

typeMatch(node, allowedNodeTypes) ==
  allowedNodeTypes = <<>> \/ InSeq(node.node_type, allowedNodeTypes)

titleMatch(node, allowedTitles) ==
  \/ allowedTitles = <<>>
  \/ /\ node.node_type \in {"section", "index"}
     /\ \/ TruthyNum(node.title_num) /\ InSeq(node.title_num[1], allowedTitles)
        \/ /\ TruthyStr(node.title)
           /\ parseInt(node.title[1]) # None
           /\ InSeq(parseInt(node.title[1])[1], allowedTitles)

sectionMatch(node, allowedSections) ==
  \/ allowedSections = <<>>
  \/ /\ TruthyStr(node.section_num)
     /\ \E i \in 1..Len(allowedSections) :
          includes(toLowerCase(node.section_num[1]), toLowerCase(allowedSections[i]))

filterByAttributes(allowedNodeTypes, allowedTitles, allowedSections) ==
  {allNodes[i].id : i \in
     {k \in 1..Len(allNodes) :
        LET node == allNodes[k]
        IN IF allowedNodeTypes # <<>>
           THEN typeMatch(node, allowedNodeTypes)
           ELSE \/ allowedTitles = <<>> /\ allowedSections = <<>>
                \/ titleMatch(node, allowedTitles)
                \/ sectionMatch(node, allowedSections)}}

(***************************************************************************)
(* expandFromSeeds.  expanded, currentLayer and nextLayer are Sets whose   *)
(* iteration order changes only the order in which ids are inserted: each  *)
(* frontier node's limitedNeighbors does not depend on expanded, so the    *)
(* ids a layer adds are the union of the limitedNeighbors minus expanded.  *)
(***************************************************************************)
\* the slip of leaving out the edge-type filter
filteredNeighbors_Unfiltered(nodeId, allowedEdgeTypes) == Neighbors(nodeId)

filteredNeighbors(nodeId, allowedEdgeTypes) ==
  IF allowedEdgeTypes = <<>> THEN Neighbors(nodeId)
  ELSE SelectSeq(Neighbors(nodeId), LAMBDA n : InSeq(n.edgeType, allowedEdgeTypes))

\* the slip of cutting the neighbor list before the edge-type filter
limitedNeighbors_CapBeforeFilter(nodeId, maxNeighborsPerNode, allowedEdgeTypes) ==
  LET cut == IF maxNeighborsPerNode > 0
             THEN Slice0(Neighbors(nodeId), maxNeighborsPerNode)
             ELSE Neighbors(nodeId)
  IN IF allowedEdgeTypes = <<>> THEN cut
     ELSE SelectSeq(cut, LAMBDA n : InSeq(n.edgeType, allowedEdgeTypes))

limitedNeighbors(nodeId, maxNeighborsPerNode, allowedEdgeTypes) ==
  IF maxNeighborsPerNode > 0
  THEN Slice0(filteredNeighbors(nodeId, allowedEdgeTypes), maxNeighborsPerNode)
  ELSE filteredNeighbors(nodeId, allowedEdgeTypes)

\* the loop of expandFromSeeds: the state of its two Sets when it ends
RECURSIVE ExpandLoop(_, _, _, _, _, _)
ExpandLoop(i, depth, expanded, currentLayer, maxNeighborsPerNode, allowedEdgeTypes) ==
  IF ~(i < depth) THEN [expanded |-> expanded, currentLayer |-> currentLayer]
  ELSE LET nextLayer ==
             UNION {{n.neighborId :
                       n \in Range(limitedNeighbors(nodeId, maxNeighborsPerNode, allowedEdgeTypes))}
                    : nodeId \in currentLayer} \ expanded
       IN IF nextLayer = {} THEN [expanded |-> expanded, currentLayer |-> nextLayer]
          ELSE ExpandLoop(i + 1, depth, expanded \cup nextLayer, nextLayer,
                          maxNeighborsPerNode, allowedEdgeTypes)

\* the slip of returning currentLayer instead of expanded
expandFromSeeds_LastLayer(seedIds, depth, maxNeighborsPerNode, allowedEdgeTypes) ==
  ExpandLoop(0, depth, seedIds, seedIds, maxNeighborsPerNode, allowedEdgeTypes).currentLayer

expandFromSeeds(seedIds, depth, maxNeighborsPerNode, allowedEdgeTypes) ==
  ExpandLoop(0, depth, seedIds, seedIds, maxNeighborsPerNode, allowedEdgeTypes).expanded

(***************************************************************************)
(* Degree ranking.                                                         *)
(***************************************************************************)
\* Array.prototype.sort((a, b) => deg[b] - deg[a]): stable, descending
RECURSIVE InsertDesc(_, _, _)
InsertDesc(sorted, x, deg) ==
  IF sorted = <<>> THEN <<x>>
  ELSE IF deg[x] > deg[Head(sorted)] THEN <<x>> \o sorted
       ELSE <<Head(sorted)>> \o InsertDesc(Tail(sorted), x, deg)

RECURSIVE SortDesc(_, _)
SortDesc(s, deg) ==
  IF s = <<>> THEN <<>>
  ELSE InsertDesc(SortDesc(SubSeq(s, 1, Len(s) - 1), deg), s[Len(s)], deg)

\* the number of link ends at id: the (map.get(id) || 0) + 1 counting loops
RECURSIVE LinkDegree(_, _)
LinkDegree(links, id) ==
  IF links = <<>> THEN 0
  ELSE (IF Head(links).source = id THEN 1 ELSE 0)
       + (IF Head(links).target = id THEN 1 ELSE 0)
       + LinkDegree(Tail(links), id)

\* the slip of sorting ascending (a[1] - b[1])
selectTopNodesByDegree_Ascending(nodeIds, maxNodes) ==
  LET negated == [id \in Range(nodeIds) |-> 0 - Len(Neighbors(id))]
  IN Slice0(SortDesc(nodeIds, negated), maxNodes)

\* the slip of leaving out .slice(0, maxNodes)
selectTopNodesByDegree_NoSlice(nodeIds, maxNodes) ==
  LET nodeDegrees == [id \in Range(nodeIds) |-> Len(Neighbors(id))]
  IN SortDesc(nodeIds, nodeDegrees)

selectTopNodesByDegree(nodeIds, maxNodes) ==
  LET nodeDegrees == [id \in Range(nodeIds) |-> Len(Neighbors(id))]
  IN Slice0(SortDesc(nodeIds, nodeDegrees), maxNodes)

\* the slip of ranking the subgraph mode by the adjacency list length
selectTopNodesBySubgraphDegree_Adjacency(connectedNodeIds, candidateLinks, maxNodes) ==
  LET nodeDegrees == [id \in Range(connectedNodeIds) |-> Len(Neighbors(id))]
      ranked == SelectSeq(connectedNodeIds, LAMBDA id : nodeDegrees[id] > 0)
  IN Slice0(SortDesc(ranked, nodeDegrees), maxNodes)

\* subgraph mode of buildNetwork: rank by degree in candidateLinks
selectTopNodesBySubgraphDegree(connectedNodeIds, candidateLinks, maxNodes) ==
  LET nodeDegrees == [id \in Range(connectedNodeIds) |-> LinkDegree(candidateLinks, id)]
      ranked == SelectSeq(connectedNodeIds, LAMBDA id : nodeDegrees[id] > 0)
  IN Slice0(SortDesc(ranked, nodeDegrees), maxNodes)

(***************************************************************************)
(* Colour scales.  A colour is <<"rgb", r, g, b>> or the fallback <<"#AFBBE8">>. *)
(***************************************************************************)
\* Math.round(c1 + (c2 - c1) * (v / maxVal)), Math.round rounding halves up
Channel(c1, c2, v, maxVal) == (2 * c1 * maxVal + 2 * (c2 - c1) * v + maxVal) \div (2 * maxVal)

Scale(low, high, v, maxVal) ==
  <<"rgb", Channel(low[1], high[1], v, maxVal), Channel(low[2], high[2], v, maxVal),
    Channel(low[3], high[3], v, maxVal)>>

sectionColorScale(v, maxVal) == Scale(<<155, 150, 201>>, <<65, 55, 143>>, v, maxVal)
entityColorScale(v, maxVal) == Scale(<<249, 217, 155>>, <<240, 167, 52>>, v, maxVal)
conceptColorScale(v, maxVal) == Scale(<<232, 179, 227>>, <<156, 51, 145>>, v, maxVal)

NodeColor(node_type, v, maxVal) ==
  IF node_type \in {"section", "index"} THEN sectionColorScale(v, maxVal)
  ELSE IF node_type = "entity" THEN entityColorScale(v, maxVal)
  ELSE IF node_type = "concept" THEN conceptColorScale(v, maxVal)
  ELSE <<"#AFBBE8">>

(***************************************************************************)
(* buildNetwork.  The result holds the FilteredGraph that is returned      *)
(* (graph; its nodes are references, given as ids in order) and the        *)
(* allNodes array as the call leaves it (the call writes val, totalVal,    *)
(* color and baseColor into the records it returns).                       *)
(***************************************************************************)
searchPerformed(state) == state.searchTerms # <<>> /\ state.searchFields # <<>>

EmptyGraph == [nodes |-> <<>>, links |-> <<>>, truncated |-> FALSE, matchedCount |-> 0]

\* the slip of expanding also when no search was performed
expandedCandidates_AlwaysExpand(state, seedNodeIds) ==
  LET start == IF searchPerformed(state) THEN seedNodeIds ELSE NodeIds
  IN IF state.expansionDepth > 0
     THEN expandFromSeeds(start, state.expansionDepth,
                          state.maxNodesPerExpansion, state.allowedEdgeTypes)
     ELSE start

\* the slip of starting from filterByAttributes when no search was performed
expandedCandidates_Filtered(state, seedNodeIds) ==
  IF searchPerformed(state)
  THEN IF state.expansionDepth > 0
       THEN expandFromSeeds(seedNodeIds, state.expansionDepth,
                            state.maxNodesPerExpansion, state.allowedEdgeTypes)
       ELSE seedNodeIds
  ELSE filterByAttributes(state.allowedNodeTypes, state.allowedTitles, state.allowedSections)

\* Steps 1 and 1b: the seeds expanded
expandedCandidates(state, seedNodeIds) ==
  IF searchPerformed(state)
  THEN IF state.expansionDepth > 0
       THEN expandFromSeeds(seedNodeIds, state.expansionDepth,
                            state.maxNodesPerExpansion, state.allowedEdgeTypes)
       ELSE seedNodeIds
  ELSE NodeIds

\* the slip of applying the type filter to every candidate
seedTypeFilter_AllCandidates(state, seedNodeIds, candidateNodeIds) ==
  IF searchPerformed(state) /\ state.allowedNodeTypes # <<>>
  THEN {id \in candidateNodeIds :
          id \in NodeIds /\ InSeq(NodeById(id).node_type, state.allowedNodeTypes)}
  ELSE candidateNodeIds

\* Step 2: the type filter, on seeds only
seedTypeFilter(state, seedNodeIds, candidateNodeIds) ==
  IF searchPerformed(state) /\ state.allowedNodeTypes # <<>>
  THEN LET seedsAfterTypeFilter ==
             {id \in seedNodeIds :
                id \in NodeIds /\ InSeq(NodeById(id).node_type, state.allowedNodeTypes)}
       IN {id \in candidateNodeIds : id \in seedsAfterTypeFilter \/ id \notin seedNodeIds}
  ELSE candidateNodeIds

\* Step 4: links of an allowed type between candidate nodes
\* the slip of leaving out the edge-type test
candidateLinksOf_AnyEdgeType(state, candidateNodeMap) ==
  SelectSeq(allLinks, LAMBDA link :
    /\ link.source \in candidateNodeMap
    /\ link.target \in candidateNodeMap)

candidateLinksOf(state, candidateNodeMap) ==
  SelectSeq(allLinks, LAMBDA link :
    /\ state.allowedEdgeTypes = <<>> \/ InSeq(link.edge_type, state.allowedEdgeTypes)
    /\ link.source \in candidateNodeMap
    /\ link.target \in candidateNodeMap)

\* Step 5: candidate nodes with at least one candidate link, in base order
connectedNodeIdsOf(candidateNodeMap, candidateLinks) ==
  LET nodesWithEdges == {l.source : l \in Range(candidateLinks)}
                        \cup {l.target : l \in Range(candidateLinks)}
      kept == SelectSeq(allNodes, LAMBDA n : n.id \in candidateNodeMap /\ n.id \in nodesWithEdges)
  IN [i \in 1..Len(kept) |-> kept[i].id]

\* Step 6: the node cap
finalNodeIdsOf(state, nodeRankingMode, connectedNodeIds, candidateLinks) ==
  IF Len(connectedNodeIds) > state.maxTotalNodes
  THEN IF nodeRankingMode = "subgraph"
       THEN Range(selectTopNodesBySubgraphDegree(connectedNodeIds, candidateLinks,
                                                   state.maxTotalNodes))
       ELSE Range(selectTopNodesByDegree(connectedNodeIds, state.maxTotalNodes))
  ELSE Range(connectedNodeIds)

\* the slip of returning candidateLinks without the endpoint filter
finalLinksOf_Unfiltered(candidateLinks, selectedNodeMap) == candidateLinks

\* Step 7: candidate links between the selected nodes
finalLinksOf(candidateLinks, selectedNodeMap) ==
  SelectSeq(candidateLinks, LAMBDA link :
    link.source \in selectedNodeMap /\ link.target \in selectedNodeMap)

\* Step 8: val, totalVal, color and baseColor written into the returned records
annotate(nodeIds, links) ==
  LET valOf == [id \in nodeIds |->
                  IF LinkDegree(links, id) = 0 THEN 1 ELSE LinkDegree(links, id)]
      \* Math.max(...nodes.map(n => n.val), 1)
      maxVal == CHOOSE m \in {valOf[id] : id \in nodeIds} \cup {1} :
                  \A x \in {valOf[id] : id \in nodeIds} \cup {1} : x <= m
  IN [i \in 1..Len(allNodes) |->
        IF allNodes[i].id \in nodeIds
        THEN [allNodes[i] EXCEPT
                !.val = Some(valOf[allNodes[i].id]),
                !.totalVal = Some(valOf[allNodes[i].id]),
                !.color = Some(NodeColor(allNodes[i].node_type, valOf[allNodes[i].id], maxVal)),
                !.baseColor = Some(NodeColor(allNodes[i].node_type, valOf[allNodes[i].id], maxVal))]
        ELSE allNodes[i]]

\* the slip of leaving out the early return for an empty search result
noSeedFound_Never(state, seedNodeIds) == FALSE

\* Step 1: the search was performed and matched nothing (the early return)
noSeedFound(state, seedNodeIds) == searchPerformed(state) /\ seedNodeIds = {}

\* locals records the values of the call's local variables when it returns
buildNetwork(state, searchLogic, nodeRankingMode) ==
  LET seedNodeIds == IF searchPerformed(state)
                     THEN searchNodes(state.searchTerms, state.searchFields, searchLogic)
                     ELSE {}
  IN IF noSeedFound(state, seedNodeIds)
     THEN [graph |-> EmptyGraph, allNodes |-> allNodes,
           locals |-> [seedNodeIds |-> seedNodeIds, candidateNodeIds |-> {},
                       candidateLinks |-> <<>>, connectedNodeIds |-> <<>>]]
     ELSE
       LET candidateNodeIds ==
             seedTypeFilter(state, seedNodeIds, expandedCandidates(state, seedNodeIds))
           candidateNodeMap == candidateNodeIds \cap NodeIds
           candidateLinks == candidateLinksOf(state, candidateNodeMap)
           connectedNodeIds == connectedNodeIdsOf(candidateNodeMap, candidateLinks)
           finalNodeIds == finalNodeIdsOf(state, nodeRankingMode, connectedNodeIds, candidateLinks)
           selected == SelectSeq(allNodes, LAMBDA n : n.id \in finalNodeIds)
           nodes == [i \in 1..Len(selected) |-> selected[i].id]
           selectedNodeMap == Range(nodes)
           links == finalLinksOf(candidateLinks, selectedNodeMap)
       IN [graph |-> [nodes |-> nodes, links |-> links,
                      truncated |-> Len(connectedNodeIds) > state.maxTotalNodes,
                      matchedCount |-> Len(connectedNodeIds)],
           allNodes |-> annotate(selectedNodeMap, links),
           locals |-> [seedNodeIds |-> seedNodeIds, candidateNodeIds |-> candidateNodeIds,
                       candidateLinks |-> candidateLinks,
                       connectedNodeIds |-> connectedNodeIds]]

(***************************************************************************)
(* Inputs.                                                                 *)
(***************************************************************************)
TermLists == {<<>>, <<<<"a">>, <<"B", " ">>>>}
FieldLists == {<<>>, <<"text">>, <<"entity">>}
NodeTypeLists == {<<>>, <<"section">>}
EdgeTypeLists == {<<>>, <<"reference">>}
Depths == {0, 1, 2}
NeighborCaps == {0, 1}
TotalCaps == {-1, 0, 1, 2, 5}

FilterStates ==
  [searchTerms : TermLists, searchFields : FieldLists,
   allowedNodeTypes : NodeTypeLists, allowedEdgeTypes : EdgeTypeLists,
   allowedTitles : {<<>>}, allowedSections : {<<>>},
   expansionDepth : Depths, maxNodesPerExpansion : NeighborCaps,
   maxTotalNodes : TotalCaps]

BuildInputs ==
  [state : FilterStates, searchLogic : {"AND", "OR"}, nodeRankingMode : {"global", "subgraph"}]

(***************************************************************************)
(* Specification: an engine is constructed from a node list and a link     *)
(* list, and buildNetwork is applied to a filter state.                    *)
(***************************************************************************)
Constructed(nodes, links) ==
  /\ allNodes = nodes
  /\ allLinks = links
  /\ adjacencyMap = BuildAdjacency(links, EmptyMap)
  /\ constructed = nodes

Init ==
  /\ \E nodes \in NodeLists, links \in LinkLists : Constructed(nodes, links)
  /\ input \in BuildInputs
  /\ last = None
  /\ output = None

\* one call of buildNetwork(q.state, q.searchLogic, q.nodeRankingMode)
Call(q) ==
  /\ LET r == buildNetwork(q.state, q.searchLogic, q.nodeRankingMode)
     IN /\ last' = Some(r.graph)
        /\ allNodes' = r.allNodes
        /\ output' = Some(r.locals)
  /\ UNCHANGED <<allLinks, adjacencyMap, constructed>>

BuildNetwork ==
  /\ last = None
  /\ Call(input)
  /\ UNCHANGED input

Next == BuildNetwork

Spec == Init /\ [][Next]_vars

(***************************************************************************)
(* Specification SpecSeq: one engine answers any number of queries, each   *)
(* with its own filter state.                                              *)
(***************************************************************************)
Requeries ==
  {q \in BuildInputs :
     /\ q.state.searchFields # <<"entity">>
     /\ q.state.allowedNodeTypes = <<>>
     /\ q.state.expansionDepth = 0
     /\ q.state.maxNodesPerExpansion = 0
     /\ q.state.maxTotalNodes \in {1, 5}
     /\ q.searchLogic = "OR"}

InitSeq ==
  /\ \E nodes \in NodeLists, links \in LinkLists : Constructed(nodes, links)
  /\ input = None
  /\ last = None
  /\ output = None

Query == \E q \in Requeries : input' = q /\ Call(q)

NextSeq == Query

SpecSeq == InitSeq /\ [][NextSeq]_vars

(***************************************************************************)
(* Specification SpecSearch: searchNodes applied to a term list and a      *)
(* field list under each logic.                                            *)
(***************************************************************************)
MaxTerms == 2
MaxFields == 2

SearchTerms == {<<"a">>, <<"B", " ">>, <<" ">>, <<"a", "a">>}
SearchFields ==
  {"text", "full_name", "display_label", "definition", "entity", "concept", "properties",
   "section_text", "section_heading", "section_num", "tag", "name"}

InitSearch ==
  /\ \E nodes \in NodeLists : Constructed(nodes, <<>>)
  /\ input \in [searchTerms : SeqsUpTo(SearchTerms, MaxTerms),
                searchFields : SeqsUpTo(SearchFields, MaxFields)]
  /\ last = None
  /\ output = [logic \in {"AND", "OR"} |-> None]

Search(logic) ==
  /\ output[logic] = None
  /\ output' = [output EXCEPT ![logic] = Some(searchNodes(input.searchTerms, input.searchFields, logic))]
  /\ UNCHANGED <<allNodes, allLinks, adjacencyMap, constructed, last, input>>

SearchOR == Search("OR")
SearchAND == Search("AND")

NextSearch == SearchOR \/ SearchAND

SpecSearch == InitSearch /\ [][NextSearch]_vars

(***************************************************************************)
(* Specification SpecFilter: filterByAttributes applied to its three lists.*)
(***************************************************************************)
MaxTitles == 2

TitleLists == SeqsUpTo({0, 1, 2}, MaxTitles)
SectionLists == {<<>>, <<<<"1">>>>, <<<<"B">>>>, <<<<"a">>, <<"2", "B">>>>, <<<<>>>>}
FilterTypeLists == {<<>>, <<"section">>, <<"entity", "index">>}

InitFilter ==
  /\ \E nodes \in NodeLists : Constructed(nodes, <<>>)
  /\ input \in [allowedNodeTypes : FilterTypeLists, allowedTitles : TitleLists,
                allowedSections : SectionLists]
  /\ last = None
  /\ output = None

Filter ==
  /\ output = None
  /\ output' = Some(filterByAttributes(input.allowedNodeTypes, input.allowedTitles,
                                       input.allowedSections))
  /\ UNCHANGED <<allNodes, allLinks, adjacencyMap, constructed, last, input>>

NextFilter == Filter

SpecFilter == InitFilter /\ [][NextFilter]_vars

(***************************************************************************)
(* Specification SpecExpand: expandFromSeeds applied to the same seeds,    *)
(* cap and edge types at depth 0, 1, 2, ...; output[d + 1] is the result   *)
(* at depth d.                                                             *)
(***************************************************************************)
SeedSets == SUBSET IdsOf(SubSeq(NodePool, 1, MaxNodes))
ExpandCaps == {0, 1, 2}

InitExpand ==
  /\ \E nodes \in NodeLists, links \in LinkLists : Constructed(nodes, links)
  /\ input \in [seedIds : SeedSets, maxNeighborsPerNode : ExpandCaps,
                allowedEdgeTypes : EdgeTypeLists]
  /\ last = None
  /\ output = <<>>

Expand ==
  /\ Len(output) <= MaxDepth
  /\ output' = Append(output, expandFromSeeds(input.seedIds, Len(output),
                                              input.maxNeighborsPerNode, input.allowedEdgeTypes))
  /\ UNCHANGED <<allNodes, allLinks, adjacencyMap, constructed, last, input>>

NextExpand == Expand

SpecExpand == InitExpand /\ [][NextExpand]_vars

(***************************************************************************)
(* Specification SpecStar: the scenario of a hub A linked to B, C, D and   *)
(* E, in every base order of the five nodes, queried with a search that    *)
(* matches all five and a cap of two nodes.                                *)
(***************************************************************************)
StarNodes ==
  << [BlankNode("A", "section", <<"h">>) EXCEPT !.text = Some(<<"a", "b">>)],
     [BlankNode("B", "entity", <<"l">>) EXCEPT !.text = Some(<<"b", "a">>)],
     [BlankNode("C", "concept", <<"l">>) EXCEPT !.text = Some(<<"A", "b">>)],
     [BlankNode("D", "index", <<"l">>) EXCEPT !.text = Some(<<"a", " ", "b">>)],
     [BlankNode("E", "entity", <<"l">>) EXCEPT !.text = Some(<<"b", "A">>)] >>

StarLeaves == <<"B", "C", "D", "E">>

\* the orderings of the elements of s
Orderings(s) ==
  {[i \in 1..Len(s) |-> s[p[i]]] :
     p \in {f \in [1..Len(s) -> 1..Len(s)] : \A i, j \in 1..Len(s) : f[i] = f[j] => i = j}}

\* the four links, with the hub as source or as target
StarLinks(hubIsSource) ==
  [i \in 1..Len(StarLeaves) |->
     IF hubIsSource THEN Link("A", StarLeaves[i], "reference")
                    ELSE Link(StarLeaves[i], "A", "reference")]

StarInputs ==
  {q \in [state : [searchTerms : {<<<<"a">>>>, <<<<"a">>, <<"B", " ">>>>},
                   searchFields : {<<"text">>},
                   allowedNodeTypes : {<<>>, <<"section", "entity", "concept", "index">>},
                   allowedEdgeTypes : EdgeTypeLists,
                   allowedTitles : {<<>>}, allowedSections : {<<>>},
                   expansionDepth : {0, 1}, maxNodesPerExpansion : NeighborCaps,
                   maxTotalNodes : {2}],
           searchLogic : {"AND", "OR"}, nodeRankingMode : {"global", "subgraph"}] : TRUE}

InitStar ==
  /\ \E nodes \in Orderings(StarNodes), hubIsSource \in BOOLEAN :
       Constructed(nodes, StarLinks(hubIsSource))
  /\ input \in StarInputs
  /\ last = None
  /\ output = None

NextStar == BuildNetwork

SpecStar == InitStar /\ [][NextStar]_vars

(***************************************************************************)
(* Specification SpecDangling: a base graph with at least one dangling     *)
(* link is queried, then an engine is constructed from the same nodes and  *)
(* the links that are not dangling, and the same query is made of it.      *)
(* last holds the two results in that order.                               *)
(***************************************************************************)
Dangling(link) == link.source \notin NodeIds \/ link.target \notin NodeIds

HasDangling == \E i \in 1..Len(allLinks) : Dangling(allLinks[i])

InitDangling ==
  /\ \E nodes \in NodeLists, links \in LinkLists : Constructed(nodes, links)
  /\ HasDangling
  /\ input \in BuildInputs
  /\ last = <<>>
  /\ output = None

CallAppend(q) ==
  /\ LET r == buildNetwork(q.state, q.searchLogic, q.nodeRankingMode)
     IN /\ last' = Append(last, r.graph)
        /\ allNodes' = r.allNodes
        /\ output' = Some(r.locals)
  /\ UNCHANGED <<allLinks, adjacencyMap, constructed, input>>

QueryWithDangling ==
  /\ last = <<>>
  /\ CallAppend(input)

\* new NetworkBuilder({nodes, links: links without the dangling ones})
ConstructWithoutDangling ==
  /\ Len(last) = 1
  /\ HasDangling
  /\ LET links == SelectSeq(allLinks, LAMBDA l : ~ Dangling(l))
     IN /\ allLinks' = links
        /\ adjacencyMap' = BuildAdjacency(links, EmptyMap)
  /\ UNCHANGED <<allNodes, constructed, last, input, output>>

QueryWithoutDangling ==
  /\ Len(last) = 1
  /\ ~ HasDangling
  /\ CallAppend(input)

NextDangling == QueryWithDangling \/ ConstructWithoutDangling \/ QueryWithoutDangling

SpecDangling == InitDangling /\ [][NextDangling]_vars

(***************************************************************************)
(* Specification SpecNoSearch: buildNetwork without a search (no terms or  *)
(* no fields), for filter states that request node types, titles and       *)
(* sections.                                                               *)
(***************************************************************************)
NoSearchTitles == {<<>>, <<1>>, <<0, 2>>}
NoSearchSections == {<<>>, <<<<"1">>>>}

NoSearchInputs ==
  {q \in [state : [searchTerms : TermLists, searchFields : {<<>>, <<"text">>},
                   allowedNodeTypes : FilterTypeLists, allowedEdgeTypes : EdgeTypeLists,
                   allowedTitles : NoSearchTitles, allowedSections : NoSearchSections,
                   expansionDepth : {0}, maxNodesPerExpansion : {0},
                   maxTotalNodes : TotalCaps],
          searchLogic : {"OR"}, nodeRankingMode : {"global", "subgraph"}] :
     ~ searchPerformed(q.state)}

InitNoSearch ==
  /\ \E nodes \in NodeLists, links \in LinkLists : Constructed(nodes, links)
  /\ input \in NoSearchInputs
  /\ last = None
  /\ output = None

NextNoSearch == BuildNetwork

SpecNoSearch == InitNoSearch /\ [][NextNoSearch]_vars

(***************************************************************************)
(* Properties.                                                             *)
(***************************************************************************)
Returned == last # None
Graph == last[1]
ReturnedNodeIds == Range(Graph.nodes)
Incident(link, id) == link.source = id \/ link.target = id

\* C1: buildNetwork never returns a link whose source or target id is
\* missing from the returned node list.
C1_LinkEndpointsReturned ==
  Returned =>
    \A i \in 1..Len(Graph.links) :
      Graph.links[i].source \in ReturnedNodeIds /\ Graph.links[i].target \in ReturnedNodeIds

\* C1 witness: a truncated query returned some links and left out a base
\* link between base nodes, one of whose endpoints was cut.
C1_Witness ==
  /\ Returned
  /\ Graph.truncated
  /\ Graph.links # <<>>
  /\ \E i \in 1..Len(allLinks) :
       /\ allLinks[i].source \in NodeIds /\ allLinks[i].target \in NodeIds
       /\ allLinks[i].source \in ReturnedNodeIds
       /\ allLinks[i].target \notin ReturnedNodeIds

\* C2: every node returned by buildNetwork is an endpoint of at least one
\* returned link, also when the connected candidate set was truncated to a
\* positive maxTotalNodes.
C2_NoIsolatedNodeReturned ==
  (Returned /\ input.state.maxTotalNodes > 0) =>
    \A id \in ReturnedNodeIds : \E i \in 1..Len(Graph.links) : Incident(Graph.links[i], id)

\* the candidates surviving isolate pruning, stated from the filter state:
\* base nodes in the candidate set that are an endpoint of a base link of
\* an allowed type between two candidates
SurvivingCandidates(q) ==
  LET seeds == IF searchPerformed(q.state)
               THEN searchNodes(q.state.searchTerms, q.state.searchFields, q.searchLogic)
               ELSE {}
      cands == seedTypeFilter(q.state, seeds, expandedCandidates(q.state, seeds)) \cap NodeIds
  IN {id \in cands :
        \E i \in 1..Len(allLinks) :
          /\ Incident(allLinks[i], id)
          /\ q.state.allowedEdgeTypes = <<>> \/ InSeq(allLinks[i].edge_type, q.state.allowedEdgeTypes)
          /\ allLinks[i].source \in cands
          /\ allLinks[i].target \in cands}

\* C3: for a positive maxTotalNodes, truncated = (matchedCount > maxTotalNodes)
\* with matchedCount the number of candidates surviving isolate pruning, and a
\* truncated result has min(maxTotalNodes, matchedCount) nodes, in both modes.
C3_TruncatedFlag ==
  (Returned /\ input.state.maxTotalNodes > 0) =>
    /\ Graph.matchedCount = Cardinality(SurvivingCandidates(input))
    /\ Graph.truncated = (Graph.matchedCount > input.state.maxTotalNodes)
    /\ Graph.truncated =>
         Len(Graph.nodes) = Min2(input.state.maxTotalNodes, Graph.matchedCount)

\* C3 witness: a truncated result in global mode, after a search, with a
\* cap of at least two nodes.
C3_Witness ==
  /\ Returned
  /\ input.state.maxTotalNodes > 1
  /\ input.nodeRankingMode = "global"
  /\ searchPerformed(input.state)
  /\ Graph.truncated
  /\ Len(Graph.nodes) = input.state.maxTotalNodes

\* C4: after any sequence of buildNetwork calls every node and link record
\* of the base graph has the field values it had at construction.
C4_BaseGraphUnchanged == allNodes = constructed

Display(nodes, id) ==
  LET n == nodes[CHOOSE i \in 1..Len(nodes) : nodes[i].id = id]
  IN <<n.val, n.totalVal, n.color, n.baseColor>>

\* C5: a later buildNetwork call never alters the val, totalVal, color or
\* baseColor of a node of a FilteredGraph returned earlier.
C5_EarlierResultKept ==
  [][Returned => \A id \in ReturnedNodeIds : Display(allNodes', id) = Display(allNodes, id)]_vars

\* C6: every key of the adjacency index and every neighbor id stored in it
\* is the id of a base node; a dangling link contributes no index entry.
C6_IndexWithinNodeSet ==
  /\ DOMAIN adjacencyMap \subseteq NodeIds
  /\ \A k \in DOMAIN adjacencyMap :
       \A i \in 1..Len(adjacencyMap[k]) : adjacencyMap[k][i].neighborId \in NodeIds

\* C7: for every term list and field list the searchNodes result under AND
\* is a subset of the result under OR.
C7_AndWithinOr ==
  (output["AND"] # None /\ output["OR"] # None) => output["AND"][1] \subseteq output["OR"][1]

\* C8: searchNodes returns the empty set whenever the term list or the
\* field list is empty, under both logics.
C8_EmptyInputMatchesNothing ==
  \A logic \in {"AND", "OR"} :
    (output[logic] # None /\ (input.searchTerms = <<>> \/ input.searchFields = <<>>))
      => output[logic][1] = {}

\* C9: the size of the expandFromSeeds result is non-decreasing in depth,
\* starting from expand(seeds, 0) = seeds, also under a per-node cap.
C9_ExpandMonotone ==
  /\ Len(output) >= 1 => output[1] = input.seedIds
  /\ \A d \in 1..(Len(output) - 1) : Cardinality(output[d]) <= Cardinality(output[d + 1])

\* C9 witness: the result grows at depth 1 and again at depth 2 under a
\* positive cap that cuts the neighbor list of a node reached at depth 1.
C9_Witness ==
  /\ Len(output) >= 3
  /\ input.maxNeighborsPerNode > 0
  /\ Cardinality(output[1]) < Cardinality(output[2])
  /\ Cardinality(output[2]) < Cardinality(output[3])
  /\ \E k \in output[2] \ output[1] :
       Len(filteredNeighbors(k, input.allowedEdgeTypes)) > input.maxNeighborsPerNode

\* the title and section predicates as the specification states them
TitlePredicate(node, titles) ==
  /\ node.node_type \in {"section", "index"}
  /\ \/ node.title_num # None /\ InSeq(node.title_num[1], titles)
     \/ /\ node.title # None
        /\ parseInt(node.title[1]) # None
        /\ InSeq(parseInt(node.title[1])[1], titles)

SectionPredicate(node, sections) ==
  /\ node.section_num # None
  /\ \E i \in 1..Len(sections) :
       includes(toLowerCase(node.section_num[1]), toLowerCase(sections[i]))

\* C10: with empty nodeTypes and titles or sections non-empty, a node is
\* matched iff the title predicate or the section predicate passes; an
\* empty list makes its predicate pass for no node.
C10_TitleOrSection ==
  (/\ output # None
   /\ input.allowedNodeTypes = <<>>
   /\ input.allowedTitles # <<>> \/ input.allowedSections # <<>>)
  => output[1] = {allNodes[i].id : i \in
                    {k \in 1..Len(allNodes) :
                       \/ TitlePredicate(allNodes[k], input.allowedTitles)
                       \/ SectionPredicate(allNodes[k], input.allowedSections)}}

\* C11: in the star scenario with maxTotalNodes = 2, both ranking modes
\* return exactly A and one of B, C, D, E with the link between them,
\* truncated = true and matchedCount = 5.
C11_StarKeepsHub ==
  Returned =>
    /\ Len(Graph.nodes) = 2
    /\ "A" \in ReturnedNodeIds
    /\ Cardinality(ReturnedNodeIds \cap Range(StarLeaves)) = 1
    /\ Len(Graph.links) = 1
    /\ {Graph.links[1].source, Graph.links[1].target} = ReturnedNodeIds
    /\ Graph.truncated
    /\ Graph.matchedCount = 5

\* C11 witness: subgraph mode, the hub last in base order, returned with
\* the first leaf.
C11_Witness ==
  /\ Returned
  /\ input.nodeRankingMode = "subgraph"
  /\ allNodes[Len(allNodes)].id = "A"
  /\ Graph.nodes = <<allNodes[1].id, "A">>
  /\ Graph.truncated

Locals == output[1]
TypeAllowed(id) == id \in NodeIds /\ InSeq(NodeById(id).node_type, input.state.allowedNodeTypes)
ExpandedFrom(seeds) ==
  expandFromSeeds(seeds, input.state.expansionDepth, input.state.maxNodesPerExpansion,
                  input.state.allowedEdgeTypes)

\* C12: after a search with a non-empty allowedNodeTypes the candidate set
\* before link selection is exactly the seeds of an allowed type together
\* with the expanded nodes that are not seeds.
C12_SeedOnlyTypeFilter ==
  (/\ Returned
   /\ searchPerformed(input.state)
   /\ input.state.allowedNodeTypes # <<>>
   /\ Locals.seedNodeIds # {})
  => Locals.candidateNodeIds =
       {id \in Locals.seedNodeIds : TypeAllowed(id)}
       \cup (ExpandedFrom(Locals.seedNodeIds) \ Locals.seedNodeIds)

\* C12 witness: a seed of a disallowed type is removed although expansion
\* from the other seeds reaches it, and a node of a disallowed type found
\* only by expansion is kept.
C12_Witness ==
  /\ Returned
  /\ searchPerformed(input.state)
  /\ input.state.allowedNodeTypes # <<>>
  /\ \E s \in Locals.seedNodeIds :
       /\ s \notin Locals.candidateNodeIds
       /\ s \in ExpandedFrom(Locals.seedNodeIds \ {s})
  /\ \E x \in Locals.candidateNodeIds \cap NodeIds :
       x \notin Locals.seedNodeIds /\ ~TypeAllowed(x)

\* C13: when searchTerms and searchFields are non-empty and the search
\* matches no node, buildNetwork returns no nodes, no links, truncated =
\* false and matchedCount = 0 whatever the other fields are, and leaves
\* every node record as it was.
C13_EmptySearchShortCircuit ==
  (/\ Returned
   /\ input.state.searchTerms # <<>>
   /\ input.state.searchFields # <<>>
   /\ searchNodes(input.state.searchTerms, input.state.searchFields, input.searchLogic) = {})
  => /\ Graph.nodes = <<>>
     /\ Graph.links = <<>>
     /\ Graph.truncated = FALSE
     /\ Graph.matchedCount = 0
     /\ allNodes = constructed

\* C13 witness: a search that matches none of the linked base nodes, under
\* a negative cap and with expansion requested.
C13_Witness ==
  /\ Returned
  /\ input.state.searchTerms # <<>>
  /\ input.state.searchFields # <<>>
  /\ searchNodes(input.state.searchTerms, input.state.searchFields, input.searchLogic) = {}
  /\ \E i \in 1..Len(allLinks) :
       allLinks[i].source \in NodeIds /\ allLinks[i].target \in NodeIds
  /\ input.state.maxTotalNodes < 0
  /\ input.state.expansionDepth > 0
  /\ Graph = EmptyGraph

\* C14: when no search is performed expansion never runs: the candidate
\* set is every base node and the result is the same for every value of
\* expansionDepth and maxNodesPerExpansion (each is compared with the result
\* for depth 0 and cap 0).
C14_NoSearchNoExpansion ==
  (Returned /\ (input.state.searchTerms = <<>> \/ input.state.searchFields = <<>>))
  => /\ Locals.candidateNodeIds = NodeIds
     /\ buildNetwork([input.state EXCEPT !.expansionDepth = 0, !.maxNodesPerExpansion = 0],
                     input.searchLogic, input.nodeRankingMode).graph = Graph

\* C14 witness: no search (terms given, no fields), expansion requested
\* with a cap, a dangling link within reach, and a non-empty result.
C14_Witness ==
  /\ Returned
  /\ input.state.searchTerms # <<>>
  /\ input.state.searchFields = <<>>
  /\ input.state.expansionDepth > 1
  /\ input.state.maxNodesPerExpansion > 0
  /\ \E k \in DOMAIN adjacencyMap : k \notin NodeIds
  /\ Graph.links # <<>>

\* the number of returned links incident to id
ReturnedDegree(id) == Cardinality({i \in 1..Len(Graph.links) : Incident(Graph.links[i], id)})

\* C15: the val and the totalVal of every returned node equal the number of
\* returned links incident to it, also for a node with no incident returned
\* link.
C15_ValIsLocalDegree ==
  (Returned /\ input.state.maxTotalNodes > 0) =>
    \A id \in ReturnedNodeIds :
      /\ NodeById(id).val = Some(ReturnedDegree(id))
      /\ NodeById(id).totalVal = Some(ReturnedDegree(id))

\* the low and high anchors of the colour table
AnchorLow(type) ==
  CASE type \in {"section", "index"} -> <<155, 150, 201>>
    [] type = "entity" -> <<249, 217, 155>>
    [] type = "concept" -> <<232, 179, 227>>
AnchorHigh(type) ==
  CASE type \in {"section", "index"} -> <<65, 55, 143>>
    [] type = "entity" -> <<240, 167, 52>>
    [] type = "concept" -> <<156, 51, 145>>

\* the integer nearest to num / den (den > 0), halves rounded up
Nearest(num, den) == CHOOSE k \in 0..255 : 2 * den * k <= 2 * num + den /\ 2 * num + den < 2 * den * (k + 1)

MaxReturnedDegree ==
  CHOOSE m \in {ReturnedDegree(id) : id \in ReturnedNodeIds} \cup {1} :
    \A x \in {ReturnedDegree(id) : id \in ReturnedNodeIds} \cup {1} : x <= m

Interpolated(type, degree, maxDegree) ==
  <<"rgb",
    Nearest(AnchorLow(type)[1] * maxDegree + (AnchorHigh(type)[1] - AnchorLow(type)[1]) * degree, maxDegree),
    Nearest(AnchorLow(type)[2] * maxDegree + (AnchorHigh(type)[2] - AnchorLow(type)[2]) * degree, maxDegree),
    Nearest(AnchorLow(type)[3] * maxDegree + (AnchorHigh(type)[3] - AnchorLow(type)[3]) * degree, maxDegree)>>

\* C16: each channel of the colour of a returned section, index, entity or
\* concept node is round(low + (high - low) * degree / max(max degree, 1))
\* for the anchors of its type, and color equals baseColor for every
\* returned node.
C16_ColourInterpolatesDegree ==
  (Returned /\ input.state.maxTotalNodes > 0) =>
    \A id \in ReturnedNodeIds :
      /\ NodeById(id).color = NodeById(id).baseColor
      /\ NodeById(id).node_type \in {"section", "index", "entity", "concept"} =>
           NodeById(id).color =
             Some(Interpolated(NodeById(id).node_type, ReturnedDegree(id), MaxReturnedDegree))

\* the same two statements with the degree taken as the code stores it
\* (1 for a node without returned link)
ColourInterpolatesVal ==
  (Returned /\ input.state.maxTotalNodes > 0) =>
    \A id \in ReturnedNodeIds :
      LET d == IF ReturnedDegree(id) = 0 THEN 1 ELSE ReturnedDegree(id)
      IN /\ NodeById(id).val = Some(d)
         /\ NodeById(id).node_type \in {"section", "index", "entity", "concept"} =>
              NodeById(id).color = Some(Interpolated(NodeById(id).node_type, d, MaxReturnedDegree))

\* C17: with a negative maxTotalNodes the cap behaves as zero or as no cap:
\* the result is empty or holds every connected node.
C17_NegativeCapClamps ==
  (Returned /\ input.state.maxTotalNodes < 0) =>
    \/ Graph.nodes = <<>>
    \/ ReturnedNodeIds = Range(Locals.connectedNodeIds)

\* position of a base node in the iteration order of the node list
BasePos(id) == CHOOSE i \in 1..Len(constructed) : constructed[i].id = id

\* s is ranked before u: higher degree, or equal degree and earlier base node
RankedBefore(deg, s, u) ==
  \/ deg[s] > deg[u]
  \/ deg[s] = deg[u] /\ BasePos(s) < BasePos(u)

\* S is the set of the first cap elements of pool in that order
IsTop(S, pool, deg, cap) ==
  /\ S \subseteq pool
  /\ Cardinality(S) = Min2(cap, Cardinality(pool))
  /\ \A x \in S : \A u \in pool \ S : RankedBefore(deg, x, u)

\* degree in the full base graph, counting links between base nodes only
FullGraphDegree ==
  [id \in NodeIds |->
     LinkDegree(SelectSeq(allLinks, LAMBDA l : l.source \in NodeIds /\ l.target \in NodeIds), id)]

\* degree in the links of an allowed edge type between candidate nodes
CandidateLinkDegree ==
  [id \in NodeIds |->
     LinkDegree(SelectSeq(allLinks, LAMBDA l :
                  /\ l.source \in Locals.candidateNodeIds \cap NodeIds
                  /\ l.target \in Locals.candidateNodeIds \cap NodeIds
                  /\ input.state.allowedEdgeTypes = <<>>
                       \/ InSeq(l.edge_type, input.state.allowedEdgeTypes)), id)]

Truncating(mode) ==
  /\ Returned
  /\ input.nodeRankingMode = mode
  /\ input.state.maxTotalNodes >= 0
  /\ Graph.truncated

\* C18: when the cap truncates in global mode, the returned nodes are the
\* first maxTotalNodes connected candidates by degree in the full base graph
\* (links between base nodes only) descending, ties in base-node order.
C18_GlobalRanking ==
  Truncating("global") =>
    IsTop(ReturnedNodeIds, Range(Locals.connectedNodeIds), FullGraphDegree,
          input.state.maxTotalNodes)

\* C19: when the cap truncates in subgraph mode, the returned nodes are the
\* first maxTotalNodes connected candidates by degree in the candidate link
\* set descending, ties in base-node order.
C19_SubgraphRanking ==
  Truncating("subgraph") =>
    IsTop(ReturnedNodeIds, Range(Locals.connectedNodeIds), CandidateLinkDegree,
          input.state.maxTotalNodes)

\* C19 witness: a truncated subgraph-mode result that is not the top of the
\* ranking by full-graph degree.
C19_Witness ==
  /\ Truncating("subgraph")
  /\ input.state.maxTotalNodes >= 1
  /\ ~ IsTop(ReturnedNodeIds, Range(Locals.connectedNodeIds), FullGraphDegree,
             input.state.maxTotalNodes)

\* the links that give nodeId a neighbor of an allowed edge type
AllowedLinkOf(i, nodeId) ==
  /\ Incident(allLinks[i], nodeId)
  /\ input.allowedEdgeTypes = <<>> \/ InSeq(allLinks[i].edge_type, input.allowedEdgeTypes)

OtherEnd(link, nodeId) == IF link.source = nodeId THEN link.target ELSE link.source

\* the neighbors at positions 1..n of the filtered neighbor list of nodeId,
\* positions counted in link insertion order
FirstNeighbors(nodeId, n) ==
  {OtherEnd(allLinks[i], nodeId) :
     i \in {k \in 1..Len(allLinks) :
              /\ AllowedLinkOf(k, nodeId)
              /\ Cardinality({j \in 1..k : AllowedLinkOf(j, nodeId)}) <= n}}

\* the neighbors of nodeId at positions beyond n
LaterNeighbors(nodeId, n) ==
  {OtherEnd(allLinks[i], nodeId) :
     i \in {k \in 1..Len(allLinks) :
              /\ AllowedLinkOf(k, nodeId)
              /\ Cardinality({j \in 1..k : AllowedLinkOf(j, nodeId)}) > n}}

\* the nodes that the step from depth d - 1 to depth d expands
Frontier(d) == IF d = 1 THEN output[1] ELSE output[d] \ output[d - 1]

\* C20: with maxNeighborsPerNode = N > 0 each step of expandFromSeeds adds
\* exactly the unvisited nodes among the first N entries of the filtered
\* neighbor lists of its frontier nodes: visited entries consume slots and a
\* neighbor at a position beyond N is not added through that node.
C20_CapIsPositional ==
  input.maxNeighborsPerNode > 0 =>
    \A d \in 1..(Len(output) - 1) :
      output[d + 1] =
        output[d] \cup UNION {FirstNeighbors(f, input.maxNeighborsPerNode) : f \in Frontier(d)}

\* C20 witness: a frontier node whose first N entries hold a visited node
\* while one of its later neighbors is not added by the step.
C20_Witness ==
  /\ input.maxNeighborsPerNode > 0
  /\ \E d \in 1..(Len(output) - 1) : \E f \in Frontier(d) :
       /\ FirstNeighbors(f, input.maxNeighborsPerNode) \cap output[d] # {}
       /\ LaterNeighbors(f, input.maxNeighborsPerNode) \ output[d + 1] # {}

\* the edge type of a link passes the allow-list of the query
EdgeTypeAllowed(link) ==
  input.state.allowedEdgeTypes = <<>> \/ InSeq(link.edge_type, input.state.allowedEdgeTypes)

\* C21: the returned links are exactly the base links, in base order, of an
\* allowed edge type whose both endpoints are returned nodes.
C21_ReturnedLinksExact ==
  Returned =>
    Graph.links = SelectSeq(allLinks, LAMBDA l :
                    /\ EdgeTypeAllowed(l)
                    /\ l.source \in ReturnedNodeIds
                    /\ l.target \in ReturnedNodeIds)

\* C21 witness: of two base links between base nodes one is returned, and
\* the other is left out for its edge type or for a node cut by the cap.
C21_Witness ==
  /\ Returned
  /\ Len(allLinks) = 2
  /\ Len(Graph.links) = 1
  /\ \A i \in 1..2 : allLinks[i].source \in NodeIds /\ allLinks[i].target \in NodeIds
  /\ \/ \E i \in 1..2 : ~ EdgeTypeAllowed(allLinks[i])
     \/ Graph.truncated /\ input.state.maxTotalNodes > 0

\* C22: the result for a base graph with dangling links equals, in node ids,
\* links, truncated flag and matchedCount, the result of the same query of
\* an engine built from the graph without its dangling links.
C22_DanglingLinksIgnored ==
  Len(last) = 2 => last[1] = last[2]

\* the base nodes with at least one link of an allowed edge type between
\* base nodes
LinkedBaseNodes ==
  {id \in NodeIds :
     \E i \in 1..Len(allLinks) :
       /\ Incident(allLinks[i], id)
       /\ EdgeTypeAllowed(allLinks[i])
       /\ allLinks[i].source \in NodeIds
       /\ allLinks[i].target \in NodeIds}

\* C23: without a search the result is the same as for empty
\* allowedNodeTypes, allowedTitles and allowedSections: the base nodes with
\* a link of an allowed edge type between base nodes, then truncated.
C23_NoSearchIgnoresAttributes ==
  (Returned /\ ~ searchPerformed(input.state)) =>
    /\ Graph = buildNetwork([input.state EXCEPT !.allowedNodeTypes = <<>>,
                                                !.allowedTitles = <<>>,
                                                !.allowedSections = <<>>],
                            input.searchLogic, input.nodeRankingMode).graph
    /\ Graph.matchedCount = Cardinality(LinkedBaseNodes)
    /\ ReturnedNodeIds \subseteq LinkedBaseNodes
    /\ ~ Graph.truncated => ReturnedNodeIds = LinkedBaseNodes

\* C23 witness: no search, node types, titles and sections all requested,
\* and a returned node that matches none of the three requests.
C23_Witness ==
  /\ Returned
  /\ ~ searchPerformed(input.state)
  /\ input.state.allowedNodeTypes # <<>>
  /\ input.state.allowedTitles # <<>>
  /\ input.state.allowedSections # <<>>
  /\ \E i \in 1..Len(allNodes) :
       /\ allNodes[i].id \in ReturnedNodeIds
       /\ ~ typeMatch(allNodes[i], input.state.allowedNodeTypes)
       /\ ~ titleMatch(allNodes[i], input.state.allowedTitles)
       /\ ~ sectionMatch(allNodes[i], input.state.allowedSections)
  /\ NodeIds \ LinkedBaseNodes # {}

\* where the walk from id x along the links numbered by path ends: {} when
\* a link of the path does not touch the id reached or is of no allowed type
RECURSIVE WalkEnd(_, _)
WalkEnd(path, x) ==
  IF path = <<>> THEN {x}
  ELSE IF AllowedLinkOf(Head(path), x)
       THEN WalkEnd(Tail(path), OtherEnd(allLinks[Head(path)], x))
       ELSE {}

\* the ids within depth hops of a seed over links of an allowed edge type
WithinHops(depth) ==
  UNION {WalkEnd(path, seed) :
           seed \in input.seedIds, path \in SeqsUpTo(1..Len(allLinks), depth)}

\* C24: every id returned by expandFromSeeds is within depth hops of a seed
\* over links of an allowed edge type, in either direction, and without a
\* cap the result is exactly the set of those ids.
C24_ExpandWithinHops ==
  \A d \in 0..(Len(output) - 1) :
    /\ output[d + 1] \subseteq WithinHops(d)
    /\ input.maxNeighborsPerNode = 0 => output[d + 1] = WithinHops(d)

\* C24 witness: without a cap, under an edge-type filter, a seed set that
\* grows at depth 1 and again at depth 2, once along a link from its target
\* to its source.
C24_Witness ==
  /\ Len(output) >= 3
  /\ input.maxNeighborsPerNode = 0
  /\ input.allowedEdgeTypes # <<>>
  /\ output[1] # output[2]
  /\ output[2] # output[3]
  /\ \E i \in 1..Len(allLinks) :
       allLinks[i].target \in output[2] /\ allLinks[i].source \in output[3] \ output[2]

====
